---- MODULE Spec2Model ----
(***************************************************************************)
(* Model of the Waterstones query-to-dataset pipeline:                     *)
(*   project_files/waterstones_scraper_headless.py  (WaterstonesScraper-   *)
(*       Headless: browser session, pagination, per-field extraction)      *)
(*   project_files/waterstones_query_headless.py    (QueryWaterstones-     *)
(*       Headless: search, link discovery, assembly, persistence, and the  *)
(*       batch driver run_the_scraper)                                     *)
(*   test_waterstones_query.py  (the unittest driver: one shared object,   *)
(*       setUp run before each test)                                       *)
(*                                                                         *)
(* The web site is the environment.  Its catalogue is fixed for one        *)
(* behaviour (variable site); what a page shows when it is loaded is an    *)
(* input drawn when the browser navigates.  Pages that deviate from the    *)
(* ordinary structure are counted in faults and bounded by MaxFaults.      *)
(***************************************************************************)
EXTENDS Integers, Sequences, FiniteSets, TLC

\* ------------------------------------------------------------ bounds
MaxLanguages == 2   \* language values the LANGUAGE facet lists (Spec)
WideLanguages == 6  \* language values the LANGUAGE facet lists (SpecWide)
MaxItems     == 2   \* item blocks on one language-filtered results page
MaxPages     == 1   \* largest page count the "N of M" indicator shows
MaxAuthors   == 2   \* queries entered at the prompt of run_the_scraper
MaxFaults    == 1   \* pages/controls deviating from the ordinary structure

\* ------------------------------------------------- program constants
LessThreshold == 6  \* "if len(self.list_of_language_page_links) > 6"
FirstOnly     == 1  \* "self.list_of_book_links[:1]"
NumTests      == 2  \* test_dtypes and test_IDs: setUp runs before each

LessShownAbove == 5 \* "only present with more than 5 languages"

\* An optional value: None, or Some(x).  An element lookup that finds nothing
\* (NoSuchElementException) is written as an absent text, None.
None    == <<>>
Some(x) == <<x>>

\* ------------------------------------------------------------- texts
DigitChars == <<"0", "1", "2", "3", "4", "5", "6", "7", "8", "9">>
Digits     == {DigitChars[i] : i \in 1..10}
DigitVal(c) == (CHOOSE i \in 1..10 : DigitChars[i] = c) - 1

RECURSIVE Remove(_, _)
\* str.replace(tok, '') on a text held as a sequence of tokens
Remove(s, tok) ==
  IF s = <<>> THEN <<>>
  ELSE IF Head(s) = tok THEN Remove(Tail(s), tok)
       ELSE <<Head(s)>> \o Remove(Tail(s), tok)

RECURSIVE LStrip(_, _)
LStrip(s, chars) ==
  IF s # <<>> /\ Head(s) \in chars THEN LStrip(Tail(s), chars) ELSE s

RECURSIVE RStrip(_, _)
RStrip(s, chars) ==
  IF s # <<>> /\ s[Len(s)] \in chars THEN RStrip(SubSeq(s, 1, Len(s) - 1), chars)
  ELSE s

\* str.strip(chars): both ends
Strip(s, chars) == RStrip(LStrip(s, chars), chars)

\* int(text): surrounding whitespace allowed, then one or more digits
\* (texts here carry at most one digit)
IntParses(s) ==
  LET t == Strip(s, {" "}) IN Len(t) = 1 /\ t[1] \in Digits
IntValue(s) == DigitVal(Strip(s, {" "})[1])

\* float(text): digits with at most one '.', at least one digit
FloatParses(s) ==
  /\ s # <<>>
  /\ \A i \in 1..Len(s) : s[i] \in Digits \cup {"."}
  /\ Cardinality({i \in 1..Len(s) : s[i] = "."}) <= 1
  /\ \E i \in 1..Len(s) : s[i] \in Digits

\* query.replace(" ", "_").lower()
Lower(c) == CASE c = "J" -> "j" [] c = "S" -> "s" [] OTHER -> c
Normalize(q) == [i \in 1..Len(q) |-> IF q[i] = " " THEN "_" ELSE Lower(q[i])]

Authors == {<<"J", " ", "S">>, <<"k">>}

\* -------------------------------------------------------------- site
\* URLs.  An item detail URL ends in the item's 13-digit ISBN; no other URL
\* of the site ends in 13 digits.
HomeURL       == [kind |-> "home",   lang |-> 0, idx |-> 0]
SearchURL     == [kind |-> "search", lang |-> 0, idx |-> 0]
LessURL       == [kind |-> "less",   lang |-> 0, idx |-> 0]
LangURL(k)    == [kind |-> "lang",   lang |-> k, idx |-> 0]
ItemURL(k, j) == [kind |-> "item",   lang |-> k, idx |-> j]

\* self.driver.current_url[-13:] and int() of it
ISBNParses(url) == url.kind = "item"
ISBNValue(url)  == url.lang * 10 + url.idx

\* The content of a loaded page, as far as the scraper's selectors read it.
DOM(kind, label, hasInd, indText, container, children, badChild, price) ==
  [kind |-> kind, label |-> label, hasIndicator |-> hasInd,
   indicator |-> indText, container |-> container, children |-> children,
   badChild |-> badChild, price |-> price]
PlainDOM(kind) == DOM(kind, None, FALSE, <<>>, FALSE, 0, 0, None)
ItemDOM(price) == DOM("item", None, FALSE, <<>>, FALSE, 0, 0, Some(price))

\* the currency symbol of the price text (U+00A3), one character
Pound == "GBP"
OrdinaryPrice == <<Pound, "9">>
OddPrices == {<<Pound>>, <<Pound, "x">>, <<"9", Pound, "5">>}
IndicatorText(n) == <<"of", " ", DigitChars[n + 1]>>
OddIndicators == {<<"of">>, <<"of", " ", "x">>}

\* What the LANGUAGE facet container lists: one anchor per language value,
\* then the "less" control when there are more than five values.
FacetAnchors(L) ==
  [i \in 1..L |-> LangURL(i)] \o (IF L > LessShownAbove THEN <<LessURL>> ELSE <<>>)

\* The loads driver.get(link) can produce for a language-filtered link, each
\* with the number of deviations from the ordinary results page it carries.
ResultsLoads(k) ==
  { [url |-> LangURL(k),
     dom |-> DOM("results", lab, hasInd, ind, cont, c, bad, None),
     cost |-> (IF lab = None THEN 1 ELSE 0) + (IF ind \in OddIndicators THEN 1 ELSE 0)
              + (IF cont THEN 0 ELSE 1) + (IF c = 0 THEN 1 ELSE 0)
              + (IF bad > 0 THEN 1 ELSE 0)] :
      lab \in {None, Some(k)}, hasInd \in BOOLEAN,
      ind \in {IndicatorText(n) : n \in 0..MaxPages} \cup OddIndicators,
      cont \in BOOLEAN, c \in 0..MaxItems, bad \in 0..MaxItems }
\* a query with exactly one result in that language: the site skips the list
\* view and lands on the item page
RedirectLoads(k) ==
  { [url |-> ItemURL(k, 1), dom |-> ItemDOM(OrdinaryPrice), cost |-> 1] }
WellFormedLoad(l) ==
  /\ l.dom.badChild <= l.dom.children
  /\ (~l.dom.hasIndicator => l.dom.indicator = IndicatorText(0))
  /\ (~l.dom.container => l.dom.children = 0 /\ l.dom.badChild = 0)
  /\ (~l.dom.container => l.cost >= 1)
ItemLoads(url) ==
  { [url |-> url, dom |-> ItemDOM(p), cost |-> IF p = OrdinaryPrice THEN 0 ELSE 1] :
      p \in {OrdinaryPrice} \cup OddPrices }
Loads(url) ==
  CASE url.kind = "lang" ->
         {l \in ResultsLoads(url.lang) : WellFormedLoad(l)} \cup RedirectLoads(url.lang)
    [] url.kind = "item" -> ItemLoads(url)
    [] OTHER -> { [url |-> url, dom |-> PlainDOM(url.kind), cost |-> 0] }

\* ------------------------------------------------------------- state
VARIABLES
  mode,        \* "test": the unittest driver; "batch": run_the_scraper
  pc,          \* the statement the program is at
  site,        \* the catalogue: whether a LANGUAGE facet exists, its values
  faults,      \* deviating pages/controls served so far
  author_list, author_idx,       \* run_the_scraper: the queries, the loop index
  runs,                          \* unittest: setUp calls made
  created, quitted, driver,      \* browser sessions; the one bound to `driver`
  raw_data,                      \* queries whose images folder exists on disk
  query, list_of_language_page_links, list_of_book_links,
  language_filtered_DataFrame,   \* the object's attributes
  browser,                       \* current_url and the loaded page
  search_ok,                     \* whether send_keys succeeded in search
  lang_idx, language_name, number_of_pages_integer, page_counter,
  book_idx, page_df,             \* locals of the running methods
  current_url, \* the assembler's local of that name, set in its except
  label_read,  \* what the label element of the current language page held
  fell_back    \* whether the assembler's except installed the current URL

caller   == <<mode, site, author_list, author_idx, runs, created, quitted,
              driver, raw_data>>
attrs    == <<query, list_of_language_page_links, list_of_book_links,
              language_filtered_DataFrame>>
locals   == <<lang_idx, language_name, current_url, label_read, fell_back,
              number_of_pages_integer, page_counter, book_idx, page_df>>
vars     == <<pc, faults, caller, attrs, browser, search_ok, locals>>

Unbound  == Some(-1)   \* a local not yet assigned
NoURL    == [kind |-> "unbound", lang |-> 0, idx |-> 0]
TestQuery == <<"j", " ", "s">>   \* self.test_driver.search("jose saramago")

\* the only effect of an input on the fault budget
Spend(cost) == faults + cost <= MaxFaults /\ faults' = faults + cost

FreshLocals ==
  /\ lang_idx = 0 /\ language_name = Unbound /\ label_read = None
  /\ current_url = NoURL
  /\ fell_back = FALSE /\ number_of_pages_integer = 0 /\ page_counter = 0
  /\ book_idx = 0 /\ page_df = <<>>
ResetLocals ==
  /\ lang_idx' = 0 /\ language_name' = Unbound /\ label_read' = None
  /\ current_url' = NoURL
  /\ fell_back' = FALSE /\ number_of_pages_integer' = 0 /\ page_counter' = 0
  /\ book_idx' = 0 /\ page_df' = <<>>

\* QueryWaterstonesHeadless.__init__ (and the parent's): a new session, empty
\* attributes
NewObject ==
  /\ created' = created + 1
  /\ driver' = created + 1
  /\ query' = None
  /\ list_of_language_page_links' = <<>>
  /\ list_of_book_links' = <<>>
  /\ language_filtered_DataFrame' = <<>>

InitOn(modes, languages) ==
  /\ mode \in modes
  /\ site \in {[hasFacet |-> TRUE, languages |-> L] : L \in languages}
            \cup {[hasFacet |-> FALSE, languages |-> 0]}
  /\ faults = 0
  /\ author_list = <<>> /\ author_idx = 0 /\ runs = 0
  /\ quitted = {} /\ raw_data = {}
  \* setUpClass: QueryWaterstones() and load_and_accept_cookies()
  /\ created = (IF mode = "test" THEN 1 ELSE 0)
  /\ driver = created
  /\ pc = (IF mode = "test" THEN "setUp" ELSE "input")
  /\ query = None /\ list_of_language_page_links = <<>>
  /\ list_of_book_links = <<>> /\ language_filtered_DataFrame = <<>>
  /\ browser = [url |-> HomeURL, dom |-> PlainDOM("home")]
  /\ search_ok = TRUE
  /\ FreshLocals

\* the unittest driver
Init     == InitOn({"test"}, 0..MaxLanguages)
\* both drivers, on a site whose facet can list more than five values, and so
\* the "less" link
InitWide == InitOn({"test", "batch"}, 0..WideLanguages)

\* An exception leaves the running methods: their locals are gone.
Raise ==
  /\ pc' = "raised"
  /\ ResetLocals

\* --------------------------------------------------- the two drivers
\* WaterstonesScraperHeadless.quit_browser on the session bound to `driver`
quit_browser == quitted' = quitted \cup {driver}

\* WaterstonesQueryTestCase.setUp, up to its first call
setUp ==
  /\ mode = "test" /\ pc = "setUp"
  /\ runs' = runs + 1
  /\ pc' = "search"
  /\ UNCHANGED <<mode, site, author_list, author_idx, created, quitted, driver,
                 raw_data, faults, attrs, browser, search_ok, locals>>

\* setUp has returned or raised: the test runs (or is recorded as an error),
\* and the next test's setUp follows on the same object
next_test ==
  /\ mode = "test" /\ pc \in {"returned", "raised"}
  /\ runs < NumTests
  /\ pc' = "setUp"
  /\ UNCHANGED <<faults, caller, attrs, browser, search_ok, locals>>

tearDownClass ==
  /\ mode = "test" /\ pc \in {"returned", "raised"}
  /\ runs >= NumTests
  /\ quit_browser
  /\ pc' = "done"
  /\ UNCHANGED <<mode, site, author_list, author_idx, runs, created, driver,
                 raw_data, faults, attrs, browser, search_ok, locals>>

\* run_the_scraper: the prompt loop
input_author ==
  /\ mode = "batch" /\ pc = "input"
  /\ Len(author_list) < MaxAuthors
  /\ \E author \in Authors : author_list' = Append(author_list, author)
  /\ UNCHANGED <<pc, mode, site, author_idx, runs, created, quitted, driver,
                 raw_data, faults, attrs, browser, search_ok, locals>>

input_blank ==
  /\ mode = "batch" /\ pc = "input"
  /\ author_idx' = 1
  /\ pc' = "for_author"
  /\ UNCHANGED <<mode, site, author_list, runs, created, quitted, driver,
                 raw_data, faults, attrs, browser, search_ok, locals>>

\* for author in author_list: a new object, load_and_accept_cookies()
for_author ==
  /\ mode = "batch" /\ pc = "for_author"
  /\ author_idx <= Len(author_list)
  /\ NewObject
  /\ browser' = [url |-> HomeURL, dom |-> PlainDOM("home")]
  /\ pc' = "search"
  /\ UNCHANGED <<mode, site, author_list, author_idx, runs, quitted, raw_data,
                 faults, search_ok, locals>>

\* the statement after the loop: driver.quit_browser().  With no query
\* entered the name `driver` was never bound.
after_loop ==
  /\ mode = "batch" /\ pc = "for_author"
  /\ author_idx > Len(author_list)
  /\ IF driver = 0
       THEN pc' = "raised" /\ UNCHANGED quitted
       ELSE quit_browser /\ pc' = "done"
  /\ UNCHANGED <<mode, site, author_list, author_idx, runs, created, driver,
                 raw_data, faults, attrs, browser, search_ok, locals>>

\* save_df_as_csv: the query folder is made when missing, the table written
save_df_as_csv ==
  /\ mode = "batch" /\ pc = "returned"
  /\ pc' = "save_imgs_as_jpg"
  /\ UNCHANGED <<faults, caller, attrs, browser, search_ok, locals>>

\* save_imgs_as_jpg: os.mkdir of the images folder fails when it exists
save_imgs_as_jpg ==
  /\ mode = "batch" /\ pc = "save_imgs_as_jpg"
  /\ IF query \in raw_data
       THEN pc' = "raised" /\ UNCHANGED <<raw_data, author_idx>>
       ELSE /\ raw_data' = raw_data \cup {query}
            /\ author_idx' = author_idx + 1
            /\ pc' = "for_author"
  /\ UNCHANGED <<mode, site, author_list, runs, created, quitted, driver,
                 faults, attrs, browser, search_ok, locals>>

\* ------------------------------------------------------ the pipeline
Min(a, b) == IF a <= b THEN a ELSE b
CurrentAuthor == IF mode = "test" THEN TestQuery ELSE author_list[author_idx]

\* search(query): the query is normalised and stored, the search bar is
\* clicked, and the text typed and submitted inside try/except: a failure
\* prints "Invalid query input." and search returns self.driver all the same.
search ==
  /\ pc = "search"
  /\ query' = Some(Normalize(CurrentAuthor))
  /\ \E ok \in BOOLEAN :
       /\ Spend(IF ok THEN 0 ELSE 1)
       /\ search_ok' = ok
       /\ browser' = IF ok THEN [url |-> SearchURL, dom |-> PlainDOM("search")]
                           ELSE browser
  /\ pc' = "get_language_filter_page_links"
  /\ UNCHANGED <<caller, list_of_language_page_links, list_of_book_links,
                 language_filtered_DataFrame, locals>>

\* whether some filter header of the loaded page has the text "LANGUAGE"
HasLanguageHeader(b) == site.hasFacet /\ b.dom.kind \in {"search", "results"}

\* remove link for "less" button: pop() when the list is longer than 6
PopLess(links) ==
  IF Len(links) > LessThreshold THEN SubSeq(links, 1, Len(links) - 1) ELSE links

\* get_language_filter_page_links: language_tag stays None when no header
\* matches, and execute_script on it (or find_elements on its result) raises;
\* otherwise every anchor's href is appended to the attribute, then the pop.
get_language_filter_page_links ==
  /\ pc = "get_language_filter_page_links"
  /\ IF ~HasLanguageHeader(browser)
       THEN Raise /\ UNCHANGED list_of_language_page_links
       ELSE /\ list_of_language_page_links' =
                 PopLess(list_of_language_page_links \o FacetAnchors(site.languages))
            /\ lang_idx' = 1
            /\ pc' = "for_language_link"
            /\ UNCHANGED <<language_name, current_url, label_read, fell_back,
                           number_of_pages_integer, page_counter, book_idx, page_df>>
  /\ UNCHANGED <<faults, caller, query, list_of_book_links,
                 language_filtered_DataFrame, browser, search_ok>>

\* a handler that leaves language_name as it was (except: pass)
language_name_kept(label, previous) == IF label # None THEN label ELSE previous

\* try: language_name = self.get_language_name()  except: language_name = None
language_name_after(label, previous) == IF label # None THEN label ELSE None

\* for language_link in self.list_of_language_page_links: driver.get and the
\* language label; after the last link the table is returned (astype(str)
\* builds a copy, the attribute is not changed)
for_language_link ==
  /\ pc = "for_language_link"
  /\ IF lang_idx <= Len(list_of_language_page_links)
       THEN \E l \in Loads(list_of_language_page_links[lang_idx]) :
              /\ Spend(l.cost)
              /\ browser' = [url |-> l.url, dom |-> l.dom]
              /\ label_read' = l.dom.label
              /\ language_name' = language_name_after(l.dom.label, language_name)
              /\ fell_back' = FALSE
              /\ pc' = "get_all_book_links_from_page"
              /\ UNCHANGED <<lang_idx, current_url, number_of_pages_integer,
                             page_counter, book_idx, page_df>>
       ELSE /\ pc' = "returned"
            /\ ResetLocals
            /\ UNCHANGED <<faults, browser>>
  /\ UNCHANGED <<caller, attrs, search_ok>>

\* a handler that appends the current URL to what discovery had collected
fallback_appends(links, url) == Append(links, url)

\* except: current_url = self.driver.current_url
\*         self.list_of_book_links = [current_url]
fallback_links(links, url) == <<url>>

\* get_all_book_links_from_page, first half: the list is emptied and
\* display_all_results reads the page-count indicator.  No indicator:
\* NoSuchElementException, caught inside.  An indicator that int() rejects:
\* ValueError, which leaves both methods and reaches the assembler's except.
get_all_book_links_from_page ==
  /\ pc = "get_all_book_links_from_page"
  /\ page_counter' = 0
  /\ IF ~browser.dom.hasIndicator
       THEN /\ pc' = "book_container"
            /\ list_of_book_links' = <<>>
            /\ UNCHANGED <<current_url, fell_back, number_of_pages_integer, book_idx>>
       ELSE LET text == Remove(browser.dom.indicator, "of") IN
            IF IntParses(text)
              THEN /\ number_of_pages_integer' = IntValue(text)
                   /\ pc' = "while_page_counter"
                   /\ list_of_book_links' = <<>>
                   /\ UNCHANGED <<current_url, fell_back, book_idx>>
              ELSE /\ current_url' = browser.url
                   /\ list_of_book_links' = fallback_links(<<>>, current_url')
                   /\ fell_back' = TRUE
                   /\ book_idx' = 1
                   /\ pc' = "create_DataFrame_of_page_data"
                   /\ UNCHANGED number_of_pages_integer
  /\ UNCHANGED <<faults, caller, query, list_of_language_page_links,
                 language_filtered_DataFrame, browser, search_ok, lang_idx,
                 language_name, label_read, page_df>>

\* what a click on "show more" does to the page: a further batch of items
\* may be rendered
AfterClick(dom) ==
  {dom} \cup (IF dom.container /\ dom.children >= 1 /\ dom.children < MaxItems
               THEN {[dom EXCEPT !.children = dom.children + 1]} ELSE {})

\* while page_counter <= number_of_pages_integer: scroll_to_bottom,
\* click_show_more, sleep, page_counter += 1.  click_show_more looks the
\* button up with find_element: a button that is not in the page raises
\* NoSuchElementException, which the except of display_all_results catches,
\* ending the loop.
while_page_counter ==
  /\ pc = "while_page_counter"
  /\ IF page_counter <= number_of_pages_integer
       THEN \E show_more \in {"missing", "hidden", "displayed"} :
              /\ Spend(IF show_more = "missing" THEN 1 ELSE 0)
              /\ IF show_more = "missing"
                   THEN pc' = "book_container" /\ UNCHANGED <<page_counter, browser>>
                   ELSE /\ page_counter' = page_counter + 1
                        /\ pc' = "while_page_counter"
                        /\ IF show_more = "displayed"
                             THEN \E d \in AfterClick(browser.dom) :
                                    browser' = [browser EXCEPT !.dom = d]
                             ELSE UNCHANGED browser
       ELSE pc' = "book_container" /\ UNCHANGED <<page_counter, browser, faults>>
  /\ UNCHANGED <<caller, attrs, search_ok, lang_idx, language_name, current_url,
                 label_read, fell_back, number_of_pages_integer, book_idx, page_df>>

\* the hrefs of the first n child blocks of the results container
ChildLinks(url, n) == [j \in 1..n |-> ItemURL(url.lang, j)]

\* get_all_book_links_from_page, second half: the results container and one
\* anchor per child block.  A missing container, or a block without an
\* anchor, raises NoSuchElementException part-way; the assembler's except
\* then installs the current URL as the list.
book_container ==
  /\ pc = "book_container"
  /\ IF ~browser.dom.container
       THEN /\ current_url' = browser.url
            /\ list_of_book_links' = fallback_links(list_of_book_links, current_url')
            /\ fell_back' = TRUE
       ELSE IF browser.dom.badChild > 0
         THEN /\ current_url' = browser.url
              /\ list_of_book_links' =
                   fallback_links(ChildLinks(browser.url, browser.dom.badChild - 1),
                                  current_url')
              /\ fell_back' = TRUE
         ELSE /\ list_of_book_links' = ChildLinks(browser.url, browser.dom.children)
              /\ fell_back' = FALSE
              /\ UNCHANGED current_url
  /\ book_idx' = 1
  /\ page_df' = <<>>
  /\ pc' = "create_DataFrame_of_page_data"
  /\ UNCHANGED <<faults, caller, query, list_of_language_page_links,
                 language_filtered_DataFrame, browser, search_ok, lang_idx,
                 language_name, label_read, number_of_pages_integer, page_counter>>

\* a get_price that answers None for a text float() rejects
get_price_lenient(dom) ==
  IF dom.price = None THEN [ok |-> FALSE, value |-> None]
  ELSE LET text == Strip(dom.price[1], {Pound})
       IN  [ok |-> TRUE, value |-> IF FloatParses(text) THEN text ELSE None]

\* get_price: the price element's text, strip('\243'), float()
get_price(dom) ==
  IF dom.price = None THEN [ok |-> FALSE, value |-> None]
  ELSE LET text == Strip(dom.price[1], {Pound})
       IN  [ok |-> FloatParses(text), value |-> IF FloatParses(text) THEN text ELSE None]

\* for book_link in self.list_of_book_links[:1]
links_to_visit(links) == SubSeq(links, 1, Min(FirstOnly, Len(links)))

\* create_DataFrame_of_page_data: one pass of the loop per link of the slice:
\* driver.get, get_ISBN, get_author, get_title, get_price, get_image_link,
\* and the row joined to page_df.  No try: an exception leaves the method and
\* get_DataFrame_of_language_filtered_query_results.  (The author, title and
\* image elements are taken to be on every item page; Timestamp, Author, Title
\* and Image_link are left out of the row.  Source is not a column: it
\* records the link the row was extracted from.)
create_DataFrame_of_page_data ==
  /\ pc = "create_DataFrame_of_page_data"
  /\ IF book_idx <= Len(links_to_visit(list_of_book_links))
       THEN \E l \in Loads(list_of_book_links[book_idx]) :
              /\ Spend(l.cost)
              /\ browser' = [url |-> l.url, dom |-> l.dom]
              /\ IF ISBNParses(l.url) /\ get_price(l.dom).ok
                   THEN /\ page_df' = Append(page_df,
                               [ID |-> ISBNValue(l.url), Language |-> None,
                                Price |-> get_price(l.dom).value,
                                Source |-> list_of_book_links[book_idx]])
                        /\ book_idx' = book_idx + 1
                        /\ pc' = "create_DataFrame_of_page_data"
                        /\ UNCHANGED <<lang_idx, language_name, current_url,
                                       label_read, fell_back,
                                       number_of_pages_integer, page_counter>>
                   ELSE Raise
       ELSE /\ pc' = "concat"
            /\ UNCHANGED <<faults, browser, locals>>
  /\ UNCHANGED <<caller, attrs, search_ok>>

\* page_df["Language"] = language_name; the table grows by page_df
concat ==
  /\ pc = "concat"
  /\ language_filtered_DataFrame' = language_filtered_DataFrame \o
       [i \in 1..Len(page_df) |-> [page_df[i] EXCEPT !.Language = language_name]]
  /\ lang_idx' = lang_idx + 1
  /\ pc' = "for_language_link"
  /\ number_of_pages_integer' = 0 /\ page_counter' = 0
  /\ book_idx' = 0 /\ page_df' = <<>>
  /\ UNCHANGED <<faults, caller, query, list_of_language_page_links,
                 list_of_book_links, browser, search_ok, language_name,
                 current_url, label_read, fell_back>>

\* the steps of one run of search, get_language_filter_page_links,
\* get_DataFrame_of_language_filtered_query_results
Pipeline ==
  \/ search \/ get_language_filter_page_links \/ for_language_link
  \/ get_all_book_links_from_page \/ while_page_counter \/ book_container
  \/ create_DataFrame_of_page_data \/ concat

\* test_waterstones_query.py: one object, the pipeline run by every setUp
Next == setUp \/ next_test \/ tearDownClass \/ Pipeline

\* the unittest driver or run_the_scraper
NextWide ==
  \/ Next
  \/ input_author \/ input_blank \/ for_author \/ after_loop
  \/ save_df_as_csv \/ save_imgs_as_jpg

Spec == Init /\ [][Next]_vars
SpecWide == InitWide /\ [][NextWide]_vars

\* ------------------------------------------------------------ claims
Table == language_filtered_DataFrame
IDs(t) == [i \in 1..Len(t) |-> t[i].ID]
NewRows == SubSeq(Table', Len(Table) + 1, Len(Table'))
Grows == Len(Table') >= Len(Table) /\ SubSeq(Table', 1, Len(Table)) = Table
PriceMalformed(dom) ==
  dom.kind = "item" /\ dom.price # None /\ ~FloatParses(Strip(dom.price[1], {Pound}))

\* C1 (single-item fallback).  When get_all_book_links_from_page fails on a
\* language page, the handler leaves the item-link list equal to exactly the
\* URL the browser is on; the list stays so while the page's records are
\* extracted; and when extraction succeeds the table grows by exactly one
\* row, extracted from that URL.
C1_SingleItemFallback ==
  /\ [][~fell_back /\ fell_back'
          => /\ browser' = browser
             /\ list_of_book_links' = <<browser.url>>]_vars
  /\ [][fell_back /\ pc = "create_DataFrame_of_page_data" /\ pc' # "raised"
          => list_of_book_links' = list_of_book_links]_vars
  /\ [][fell_back /\ pc = "concat" /\ pc' # pc
          => /\ Grows
             /\ Len(NewRows) = 1
             /\ <<NewRows[1].Source>> = list_of_book_links]_vars
\* a fallback page whose single record has been appended
C1_Witness ==
  /\ pc = "for_language_link" /\ fell_back /\ lang_idx > 1
  /\ Table # <<>> /\ Table[Len(Table)].Source = current_url

\* C2 (null-language tolerance).  A language page whose label cannot be read
\* does not stop the assembly: the next step is link discovery on that page
\* with language_name null, and after the page's rows are appended the loop
\* goes on to the next link; and every row appended from a page carries what
\* that page's label element held: null when it was unreadable, the page's
\* own label otherwise.
C2_NullLanguage ==
  /\ [][pc = "for_language_link" /\ lang_idx <= Len(list_of_language_page_links)
            /\ pc' # pc
          => /\ pc' = "get_all_book_links_from_page"
             /\ language_name' = browser'.dom.label]_vars
  /\ [][pc = "concat" /\ pc' # pc
          => /\ Grows
             /\ \A i \in 1..Len(NewRows) : NewRows[i].Language = label_read
             /\ pc' = "for_language_link" /\ lang_idx' = lang_idx + 1]_vars
\* a page with an unreadable label has contributed a row with a null language
C2_Witness ==
  /\ pc = "for_language_link" /\ lang_idx > 1 /\ label_read = None
  /\ Table # <<>> /\ Table[Len(Table)].Language = None

\* C3 (language-page count policy), as claimed: after
\* get_language_filter_page_links on a facet of n anchors, the attribute holds
\* all n anchor URLs when n <= 6 and the first 6 when n = 7.
C3_CountPolicy ==
  [][pc = "get_language_filter_page_links" /\ pc' = "for_language_link"
       => LET anchors == FacetAnchors(site.languages) IN
          /\ (Len(anchors) <= 6 => list_of_language_page_links' = anchors)
          /\ (Len(anchors) = 7
                => list_of_language_page_links' = SubSeq(anchors, 1, 6))]_vars

\* The same policy on an object whose list is still empty (the first call):
\* this much of C3 the code keeps.
C3_OnEmptyList ==
  [][pc = "get_language_filter_page_links" /\ pc' = "for_language_link"
       /\ list_of_language_page_links = <<>>
       => LET anchors == FacetAnchors(site.languages) IN
          /\ (Len(anchors) <= 6 => list_of_language_page_links' = anchors)
          /\ (Len(anchors) = 7
                => list_of_language_page_links' = SubSeq(anchors, 1, 6))]_vars

\* C4 (malformed price).  When the item page just loaded by
\* create_DataFrame_of_page_data shows a price text that float() rejects after
\* the currency symbol is stripped, the step ends in the exception leaving
\* get_DataFrame_of_language_filtered_query_results and the table is unchanged.
C4_MalformedPrice ==
  [][pc = "create_DataFrame_of_page_data"
       /\ book_idx <= Len(links_to_visit(list_of_book_links))
       /\ <<pc, book_idx>>' # <<pc, book_idx>>
       /\ PriceMalformed(browser'.dom)
       => pc' = "raised" /\ Table' = Table]_vars
\* the exception has been raised on an item page with a malformed price
C4_Witness ==
  /\ pc = "raised" /\ PriceMalformed(browser.dom)
  /\ \E t \in OddPrices : browser.dom.price = Some(t) /\ Strip(t, {Pound}) # t

\* C5 (returned ID column), as claimed: whenever
\* get_DataFrame_of_language_filtered_query_results returns on a site that
\* served only ordinary pages, the ID column is, in order, the id of the
\* record of each language page of the filter bar, once each.
ExpectedIDs == [k \in 1..site.languages |-> ISBNValue(ItemURL(k, 1))]
C5_ReturnedIDs ==
  (pc = "returned" /\ faults = 0) => IDs(Table) = ExpectedIDs

\* The same on the first run of an object: this much of C5 the code keeps.
C5_FirstRun ==
  (pc = "returned" /\ faults = 0 /\ runs <= 1) => IDs(Table) = ExpectedIDs

\* C6 (missing LANGUAGE facet), as claimed: with no LANGUAGE header on the
\* page, get_language_filter_page_links does not raise and leaves the list
\* empty.
C6_MissingFacet ==
  [][pc = "get_language_filter_page_links" /\ ~HasLanguageHeader(browser)
       /\ pc' # pc
       => pc' # "raised" /\ list_of_language_page_links' = <<>>]_vars

\* C7 (search failure is fatal), as claimed: after a search whose typing or
\* submission failed, no later pipeline step is ever reached.
LaterSteps ==
  {"get_language_filter_page_links", "for_language_link",
   "get_all_book_links_from_page", "while_page_counter", "book_container",
   "create_DataFrame_of_page_data", "concat", "returned", "save_imgs_as_jpg"}
C7_SearchFatal == ~search_ok => pc \notin LaterSteps

\* C8 (pagination), as claimed: when display_all_results has finished, it has
\* made N + 1 cycles if the indicator was present with value N, and none if
\* the indicator was absent.
C8_CycleCount ==
  pc = "book_container"
    => page_counter = IF browser.dom.hasIndicator
                        THEN IntValue(Remove(browser.dom.indicator, "of")) + 1
                        ELSE 0

\* C9 (all discovered items processed), as claimed: the rows built for a
\* language page are as many as the item links discovered for it.
C9_AllItems == pc = "concat" => Len(page_df) = Len(list_of_book_links)

\* C10 (session lifecycle), as claimed: when run_the_scraper finishes
\* normally every browser session created has been quit.
C10_SessionsQuit ==
  (mode = "batch" /\ pc = "done") => \A s \in 1..created : s \in quitted
====
